---- MODULE Spec2Model ----
(***************************************************************************)
(* Verification model of the creative-studio client:                       *)
(*   - the frame sampler  VideoAnalyze.extractFrames  (components/Features) *)
(*   - the job poller     handleVideoOperation  (services/geminiService.ts) *)
(* Each subsystem has its own specification; the variables of the other    *)
(* subsystem stay at their initial values.                                 *)
(***************************************************************************)
EXTENDS Integers, Sequences, FiniteSets, TLC

(* ------------------------------------------------------------------ *)
(* Bounds and program constants                                        *)
(* ------------------------------------------------------------------ *)

\* Timeline resolution: ticks per second (durations need not be whole seconds).
Unit == 2

\* const interval = 1  (seconds), in ticks.
interval == 1 * Unit

\* const maxFrames = 16
maxFrames == 16

\* Longest finite video duration explored, in ticks: longer than the cap
\* of maxFrames intervals.
MaxDuration == (maxFrames + 2) * interval

\* The sampler's clock (currentTime) is explored up to this many ticks.
MaxClock == (maxFrames + 6) * interval

\* Largest number of "not done" answers of the status query.
MaxK == 3

\* Component instances mounted in one behaviour of the application.
MaxMounts == 4

\* Preview object URLs created in one behaviour of the upload components.
MaxUrls == 10

\* Files chosen in one file dialog.
MaxSelect == 2

\* Requests started in one behaviour of the application.
MaxRequests == 2

\* Status queries explored per run; a run asks at most MaxK + 1 of them.
MaxQueries == MaxK + 2

\* video.duration of a stream without a known end (+Infinity).
Infinity == 0 - 1

Durations == (0..MaxDuration) \cup {Infinity}

VARIABLES
  \* ---- frame sampler (one pass of extractFrames) ----
  samplerPc,        \* "idle" | "loading" | "sampling"
  promise,          \* "none" | "pending" | "resolved" | "rejected"
  resolvedFrames,   \* the value the promise resolved with
  rejectReason,     \* the Error the promise rejected with, or "none"
  urlCreated,       \* URL.createObjectURL(file) was called
  revokeCount,      \* number of URL.revokeObjectURL(objectURL) calls
  hasCtx,           \* canvas.getContext('2d') returned a context
  duration,         \* const duration = video.duration (ticks or Infinity)
  currentTime,      \* let currentTime (ticks)
  frameCount,       \* let frameCount
  frames,           \* const frames: the timeline position each frame shows
  videoCurrentTime, \* video.currentTime of the element
  seekPending,      \* a seek was requested and 'seeked' not yet delivered
  seeks,            \* history: positions assigned to video.currentTime
  confirmed,        \* history: positions whose seek was confirmed
  videoErrored,     \* the element has fired its error event
  progress,         \* setProgress: <<framesCaptured, total>> or <<>>
  progressLog       \* history: every setProgress of the pass, in order

samplerVars == <<samplerPc, promise, resolvedFrames, rejectReason, urlCreated,
                 revokeCount, hasCtx, duration, currentTime, frameCount,
                 frames, videoCurrentTime, seekPending, seeks, confirmed,
                 videoErrored, progress, progressLog>>

VARIABLES
  \* ---- job poller (one run of handleVideoOperation) ----
  pc,            \* position of the run, see PollerStates
  operation,     \* let operation: the job handle held
  job,           \* provider side: how the job will answer status queries
  served,        \* provider side: status queries answered so far
  submitDone,    \* history: the handle returned by submit was already done
  submitCount,   \* calls of getOperation()
  queryCount,    \* calls of operations.getVideosOperation
  fetchCount,    \* calls of fetch(downloadLink)
  response,      \* const response: the fetch response
  bodyText,      \* const errorText, or "none"
  fetchedBlob,   \* const blob, or "none"
  trace,         \* history: progress events and calls in program order
  failure,       \* the Error the run threw
  failedAt,      \* history: pc at which the run failed
  result,        \* the string the run returned
  runKey         \* history: process.env.API_KEY was set when the run started

pollerVars == <<pc, operation, job, served, submitDone, submitCount,
                queryCount, fetchCount, response, bodyText, fetchedBlob,
                trace, failure, failedAt, result, runKey>>

VARIABLES
  \* ---- gateway module (services/geminiService.ts) ----
  moduleState,   \* "unloaded" | "loaded" | "failed": evaluation of the module
  gwOp,          \* the gateway operation invoked, or "none"
  gwPc,          \* "idle" | "readingFile" | "requesting" | "done" | "failed"
  gwRequests,    \* provider requests issued by the invocation
  gwResult,      \* value the operation returned, or "none"
  gwFailure      \* message of the error the operation threw, or "none"

gatewayVars == <<moduleState, gwOp, gwPc, gwRequests, gwResult, gwFailure>>

VARIABLES
  \* ---- the application: App and the mounted feature component ----
  activeFeature, \* App: const [activeFeature, setActiveFeature]
  inst,          \* number of the component instance now mounted
  ui,            \* the useState values of the mounted feature component
  requests,      \* every handleSubmit call that passed validation
  timers,        \* the timers that are set and not cleared
  intervalRefs,  \* instances whose loadingMessageIntervalRef.current is set
  lastAction     \* history: what the last step was

appVars == <<activeFeature, inst, ui, requests, timers, intervalRefs,
             lastAction>>

VARIABLES
  \* ---- preview object URLs: FileUpload and VideoGenerate ----
  uploadHost,        \* the component that renders the FileUpload
  fileUploadMounted, \* whether a FileUpload is mounted
  files,             \* FileUpload: const [files, setFiles]
  previews,          \* FileUpload: const [previews, setPreviews]
  vgMode,            \* VideoGenerate: const [mode, setMode]
  imageFiles,        \* VideoGenerate: const [imageFiles, setImageFiles]
  imagePreviews,     \* VideoGenerate: const [imagePreviews, ...]
  urlCount,          \* number of URL.createObjectURL calls so far
  revokedUrls,       \* the URLs passed to URL.revokeObjectURL so far
  revokedTwice,      \* history: the URLs revoked more than once
  imagePreviewUrls,  \* history: the URLs made by handleImageFileChange
  previewFiles,      \* history: the file each URL of previews was made for
  reported,          \* history: the argument of the last onFileChange call
  dropped            \* history: files cut off by the last handleFileChange

uploadVars == <<uploadHost, fileUploadMounted, files, previews, vgMode,
                imageFiles, imagePreviews, urlCount, revokedUrls,
                revokedTwice, imagePreviewUrls, previewFiles, reported,
                dropped>>

VARIABLES
  \* ---- VideoAnalyze.handleSubmit after its await of extractFrames ----
  analysisSent,    \* analyzeVideoFrames / analyzeVideoWithImage was called
  analysisFrames,  \* the frames argument of that call
  submitError      \* setError of the catch block, or "none"

analysisVars == <<analysisSent, analysisFrames, submitError>>

VARIABLES
  \* ---- generateVideoFromImages: the reference-image payload ----
  payloadPc,       \* "idle" | "reading" | "submitted" | "failed"
  readFiles,       \* the imageFiles argument
  readState,       \* per file: "pending" | "done" | "failed"
  readOrder,       \* history: indices of the reads in completion order
  referenceImagesPayload, \* the payload handed to the submission
  jobSubmitted     \* localAi.models.generateVideos was called

payloadVars == <<payloadPc, readFiles, readState, readOrder,
                 referenceImagesPayload, jobSubmitted>>

vars == <<samplerVars, pollerVars, gatewayVars, appVars, uploadVars,
          analysisVars, payloadVars>>

(* ------------------------------------------------------------------ *)
(* Arithmetic on durations                                             *)
(* ------------------------------------------------------------------ *)

\* Mutation of ReachedEnd: currentTime > duration.
ReachedEndStrict(t, d) == d # Infinity /\ t > d

\* currentTime >= duration
ReachedEnd(t, d) == d # Infinity /\ t >= d

\* Mutation of Advance: the clock advances by two intervals.
AdvanceTwice(t) == t + 2 * interval

\* currentTime += interval
Advance(t) == t + interval

\* Mutation of CapReached: frameCount > maxFrames.
CapReachedStrict(n) == n > maxFrames

\* frameCount >= maxFrames
CapReached(n) == n >= maxFrames

\* Math.floor(duration), in whole seconds
FloorSeconds(d) == IF d = Infinity THEN Infinity ELSE d \div Unit

\* Math.min(maxFrames, x)
MathMin(m, x) == IF x = Infinity THEN m ELSE IF m < x THEN m ELSE x

\* Mutation of progressMessage: the total is the rounded-up duration.
progressMessageCeil(n, d) ==
  <<n, MathMin(maxFrames, IF d = Infinity THEN Infinity
                          ELSE (d + Unit - 1) \div Unit)>>

\* `Extracting frames... ${frameCount}/${Math.min(maxFrames, Math.floor(duration))}`
progressMessage(n, d) == <<n, MathMin(maxFrames, FloorSeconds(d))>>

\* A promise settles once: later resolve/reject calls are ignored.
Settle(p, outcome) == IF p = "pending" THEN outcome ELSE p

(* ------------------------------------------------------------------ *)
(* Frame sampler                                                       *)
(* ------------------------------------------------------------------ *)

SamplerInit ==
  /\ samplerPc = "idle"
  /\ promise = "none"
  /\ resolvedFrames = <<>>
  /\ rejectReason = "none"
  /\ urlCreated = FALSE
  /\ revokeCount = 0
  /\ hasCtx = FALSE
  /\ duration = 0
  /\ currentTime = 0
  /\ frameCount = 0
  /\ frames = <<>>
  /\ videoCurrentTime = 0
  /\ seekPending = FALSE
  /\ seeks = <<>>
  /\ confirmed = <<>>
  /\ videoErrored = FALSE
  /\ progress = <<>>
  /\ progressLog = <<>>

\* extractFrames(file): the promise executor up to the handler registration.
ExtractFrames(refsReady, ctx) ==
  /\ samplerPc = "idle"
  /\ IF ~refsReady
     THEN /\ promise' = "rejected"
          /\ rejectReason' = "Video or canvas element not ready."
          /\ samplerPc' = "stopped"
          /\ UNCHANGED <<urlCreated, hasCtx>>
     ELSE /\ promise' = "pending"
          /\ urlCreated' = TRUE
          /\ hasCtx' = ctx
          /\ samplerPc' = "loading"
          /\ UNCHANGED rejectReason
  /\ UNCHANGED <<resolvedFrames, revokeCount, duration, currentTime,
                 frameCount, frames, videoCurrentTime, seekPending, seeks,
                 confirmed, videoErrored, progress, progressLog>>

\* captureFrame(), called with the closure's currentTime t and frameCount n,
\* the frames captured so far fs and the duration d.
captureFrame(t, n, fs, d) ==
  IF ReachedEnd(t, d) \/ CapReached(n)
  THEN /\ revokeCount' = revokeCount + 1
       /\ promise' = Settle(promise, "resolved")
       /\ resolvedFrames' = IF promise = "pending" THEN fs ELSE resolvedFrames
       /\ seekPending' = FALSE
       /\ UNCHANGED <<videoCurrentTime, seeks>>
  ELSE /\ videoCurrentTime' = t
       /\ seekPending' = TRUE
       /\ seeks' = Append(seeks, t)
       /\ UNCHANGED <<revokeCount, promise, resolvedFrames>>

\* video.onloadedmetadata
OnLoadedMetadata(d) ==
  /\ samplerPc = "loading"
  /\ ~videoErrored
  /\ samplerPc' = "sampling"
  /\ duration' = d
  /\ currentTime' = 0
  /\ frameCount' = 0
  /\ captureFrame(0, 0, frames, d)
  /\ UNCHANGED <<rejectReason, urlCreated, hasCtx, frames, confirmed,
                 videoErrored, progress, progressLog>>

\* video.onseeked
OnSeeked ==
  /\ samplerPc = "sampling"
  /\ seekPending
  /\ currentTime < MaxClock
  /\ confirmed' = Append(confirmed, videoCurrentTime)
  /\ IF hasCtx
     THEN /\ frames' = Append(frames, videoCurrentTime)
          /\ frameCount' = frameCount + 1
          /\ progress' = progressMessage(frameCount', duration)
          /\ progressLog' = Append(progressLog, progress')
     ELSE UNCHANGED <<frames, frameCount, progress, progressLog>>
  /\ currentTime' = Advance(currentTime)
  /\ captureFrame(currentTime', frameCount', frames', duration)
  /\ UNCHANGED <<samplerPc, rejectReason, urlCreated, hasCtx, duration,
                 videoErrored>>

\* video.onerror
OnError ==
  /\ samplerPc \in {"loading", "sampling"}
  /\ ~videoErrored
  /\ videoErrored' = TRUE
  /\ revokeCount' = revokeCount + 1
  /\ promise' = Settle(promise, "rejected")
  /\ rejectReason' = IF promise = "pending" THEN "Error loading video file."
                                            ELSE rejectReason
  /\ UNCHANGED <<samplerPc, resolvedFrames, urlCreated, hasCtx, duration,
                 currentTime, frameCount, frames, videoCurrentTime,
                 seekPending, seeks, confirmed, progress, progressLog>>

SamplerNext ==
  \/ \E r \in BOOLEAN, c \in BOOLEAN : ExtractFrames(r, c)
  \/ \E d \in Durations : OnLoadedMetadata(d)
  \/ OnSeeked
  \/ OnError

(* ------------------------------------------------------------------ *)
(* Frame sampler: properties                                           *)
(* ------------------------------------------------------------------ *)

\* ceil(d / interval) for a finite duration d in ticks
CeilIntervals(d) == (d + interval - 1) \div interval

\* min(maxFrames, ceil(D / interval))
ExpectedFrames(d) ==
  IF d = Infinity THEN maxFrames ELSE MathMin(maxFrames, CeilIntervals(d))

PositiveDuration(d) == d = Infinity \/ d > 0

MetadataLoaded == samplerPc = "sampling"

IsPrefix(a, b) == Len(a) <= Len(b) /\ \A j \in 1..Len(a) : a[j] = b[j]

\* C2: frame k (counting from 0) shows timeline position k * interval, the
\* seeks of a pass are requested at 0, interval, 2*interval, ... in
\* increasing order, and every frame was appended on a confirmed seek.
C2_MonotonicCapture ==
  /\ \A j \in 1..Len(seeks) : seeks[j] = (j - 1) * interval
  /\ \A j \in 1..Len(frames) : frames[j] = (j - 1) * interval
  /\ IsPrefix(confirmed, seeks)
  /\ IsPrefix(frames, confirmed)
  /\ Len(confirmed) <= Len(seeks)
  /\ Len(seeks) <= Len(confirmed) + 1

\* Three frames have been captured.
C2_Witness == Len(frames) = 3 /\ frames[3] = 2 * interval /\ seekPending

Settled == promise \in {"resolved", "rejected"}

\* C4: the object URL of a pass is revoked exactly once: never twice, and
\* not zero times once the pass has settled.
C4_RevokedOnce ==
  urlCreated =>
     /\ revokeCount <= 1
     /\ Settled => revokeCount = 1

\* C12: every captured frame is followed by exactly one progress update,
\* made before the next seek is requested, that reports the number of
\* frames captured so far and min(maxFrames, floor(duration)); a video of
\* between 3 and 4 seconds yields 4 frames and is reported with total 3.
C12_ProgressPerFrame ==
  /\ Len(progressLog) = Len(frames)
  /\ Len(seeks) <= Len(progressLog) + 1 \/ ~hasCtx
  /\ \A j \in 1..Len(progressLog) :
        progressLog[j] = <<j, MathMin(maxFrames, FloorSeconds(duration))>>
  /\ frames # <<>> => progress = progressLog[Len(progressLog)]
  /\ (promise = "resolved" /\ hasCtx /\ duration # Infinity
        /\ 3 * Unit < duration /\ duration < 4 * Unit) =>
          /\ Len(resolvedFrames) = 4
          /\ progress = <<4, 3>>

\* A video of between 3 and 4 seconds has been sampled.
C12_Witness ==
  /\ promise = "resolved" /\ hasCtx /\ duration # Infinity
  /\ 3 * Unit < duration /\ duration < 4 * Unit
  /\ progressLog = <<(<<1, 3>>), (<<2, 3>>), (<<3, 3>>), (<<4, 3>>)>>

LoadError == "Error loading video file."

\* C13: an error of the video element during a pass makes the pass fail
\* with the load error and aborts it: from then on no seek is requested, no
\* frame is appended, no progress update is made and the pass does not
\* resolve.
C13_AbortOnError ==
  /\ [](videoErrored /\ rejectReason = LoadError => promise = "rejected")
  /\ [][videoErrored =>
          /\ seeks' = seeks
          /\ frames' = frames
          /\ progressLog' = progressLog
          /\ promise' # "resolved"]_vars

\* C20: the frame sequence never holds more than maxFrames frames and its
\* length always equals frameCount.
C20_FrameBound ==
  /\ Len(frames) >= 0
  /\ Len(frames) <= maxFrames
  /\ Len(frames) = frameCount
  /\ Len(resolvedFrames) <= maxFrames

\* The frame sequence is full.
C20_Witness == Len(frames) = maxFrames /\ frameCount = maxFrames

\* C22: a pass requests at most maxFrames seeks whatever the duration and
\* whether or not the canvas has a 2D context, and once the metadata has
\* loaded and every requested seek is confirmed the pass settles.
C22_BoundedWork ==
  /\ [](Len(seeks) <= maxFrames)
  /\ (MetadataLoaded /\ promise = "pending") ~> Settled

\* C25 (as stated): every progress update reports a captured count that is
\* at most the reported total min(maxFrames, floor(duration)).
C25_Original ==
  \A j \in 1..Len(progressLog) :
     /\ progressLog[j][2] = MathMin(maxFrames, FloorSeconds(duration))
     /\ progressLog[j][1] <= progressLog[j][2]

\* C25 (amended): every progress update reports the total
\* min(maxFrames, floor(duration)) and a captured count of at most
\* min(maxFrames, ceil(duration / interval)); the count exceeds the total,
\* by one, only on the last frame of a video shorter than maxFrames
\* seconds whose duration is not a whole number of seconds.
C25_CountWithinCeil ==
  \A j \in 1..Len(progressLog) :
     /\ progressLog[j][2] = MathMin(maxFrames, FloorSeconds(duration))
     /\ progressLog[j][1] <= ExpectedFrames(duration)
     /\ progressLog[j][1] <= progressLog[j][2] + 1
     /\ progressLog[j][1] > progressLog[j][2] =>
           /\ duration # Infinity
           /\ duration % Unit # 0
           /\ duration < maxFrames * Unit
           /\ j = ExpectedFrames(duration)

\* The only frame of a video shorter than one second is reported as 1 of 0.
C25_Witness ==
  /\ duration # Infinity /\ 0 < duration /\ duration < Unit
  /\ progressLog = <<(<<1, 0>>)>>
  /\ promise = "resolved"

(* ------------------------------------------------------------------ *)
(* VideoAnalyze.handleSubmit: from the sampler to the analysis gateway *)
(* ------------------------------------------------------------------ *)

NoFramesMessage == "Could not extract any frames from the video."

AnalysisInit ==
  /\ analysisSent = FALSE
  /\ analysisFrames = <<>>
  /\ submitError = "none"

\* Mutation of noFrames: the length of the frame sequence is not looked at.
noFramesUnchecked(fs) == FALSE

\* frames.length === 0
noFrames(fs) == Len(fs) = 0

Continued == analysisSent \/ submitError # "none"

\* handleSubmit resumes after `await extractFrames(videoFile)`: the throw
\* on an empty sequence, the call of the analysis gateway, or the catch
\* block on a rejected pass.
AfterExtractFrames ==
  /\ Settled
  /\ ~Continued
  /\ IF promise = "rejected"
     THEN /\ submitError' = rejectReason
          /\ UNCHANGED <<analysisSent, analysisFrames>>
     ELSE IF noFrames(resolvedFrames)
     THEN /\ submitError' = NoFramesMessage
          /\ UNCHANGED <<analysisSent, analysisFrames>>
     ELSE /\ analysisSent' = TRUE
          /\ analysisFrames' = resolvedFrames
          /\ UNCHANGED submitError

\* C24: the analysis gateway is only ever called with a frame sequence
\* that is not empty, and a submission whose pass resolved with no frame
\* ends with the error message of the empty sequence and without a call of
\* the gateway.
C24_NoEmptyAnalysis ==
  /\ analysisSent => (analysisFrames # <<>> /\ analysisFrames = resolvedFrames)
  /\ (Continued /\ promise = "resolved" /\ resolvedFrames = <<>>)
        => (submitError = NoFramesMessage /\ ~analysisSent)

\* A pass over a video of positive duration resolved with no frame for
\* want of a 2D context, and the submission ended with the error message.
C24_Witness ==
  /\ promise = "resolved" /\ ~hasCtx /\ duration # Infinity /\ duration > Unit
  /\ resolvedFrames = <<>>
  /\ submitError = NoFramesMessage
  /\ ~analysisSent

(* ------------------------------------------------------------------ *)
(* Job poller                                                          *)
(* ------------------------------------------------------------------ *)

PollerStates == {"idle", "submitting", "waiting", "polling", "fetching",
                 "readingText", "readingBlob", "done", "failed"}

NoError == "none"
ErrorMessages == {"X", "Y"}

\* operation.response?.generatedVideos?.[0]?.video?.uri
Payloads == {"noResponse", "noVideos", "noVideo", "noUri", "emptyUri", "uri"}
\* Mutation of downloadLink: only a missing response counts as no link.
downloadLinkUnchecked(op) ==
  IF op.payload = "noResponse" THEN "none" ELSE "uri"

downloadLink(op) == IF op.payload = "uri" THEN "uri" ELSE "none"

\* Mutation of mustPoll: a job that ended in error is polled again.
mustPollOnError(op) == ~op.done \/ op.error # "none"

\* while (!operation.done)
mustPoll(op) == ~op.done

\* Mutation of operationError: the error of the handle is not looked at.
operationErrorIgnored(op) == "none"

\* operation.error
operationError(op) == op.error

\* Mutation of responseOk: the status of the response is not looked at.
responseOkUnchecked(r) == TRUE

\* response.ok
responseOk(r) == r.ok

\* Mutation of keyMissing: the key is not looked at.
keyMissingUnchecked(apiKey) == FALSE

\* if (!process.env.API_KEY)
keyMissing(apiKey) == ~apiKey

\* Mutation of pollCall: the loop submits the job again.
pollCallResubmit == "call:submit"

\* operation = await localAi.operations.getVideosOperation(...)
pollCall == "call:query"

\* Mutation of startTrace: the job is submitted before "Starting" is shown.
startTraceSubmitFirst == <<"call:submit", "emit:Starting">>

\* onProgress("Starting video generation operation..."); getOperation()
startTrace == <<"emit:Starting", "call:submit">>

StatusTexts == {"Forbidden", "Not Found"}
BodyTexts == {"denied", "gone"}
Blobs == {"blobA", "blobB"}

Handles == [done : BOOLEAN, error : ErrorMessages \cup {NoError},
            payload : Payloads]
PendingHandle == [done |-> FALSE, error |-> NoError, payload |-> "noResponse"]
FinalHandles == {h \in Handles : h.done}

NoFailure == [kind |-> "none", message |-> <<>>]
NoResponse == [ok |-> FALSE, statusText |-> "none"]

\* URL.createObjectURL(blob)
createObjectURL(b) == <<"blob:", b>>

IsEmit(e) == e \in {"emit:Starting", "emit:Initiated", "emit:Checking",
                    "emit:Downloading", "emit:DownloadComplete"}
Events(tr) == SelectSeq(tr, IsEmit)

PollerInit ==
  /\ pc = "idle"
  /\ operation = PendingHandle
  /\ job = [k |-> 0, final |-> PendingHandle]
  /\ served = 0
  /\ submitDone = FALSE
  /\ submitCount = 0
  /\ queryCount = 0
  /\ fetchCount = 0
  /\ response = NoResponse
  /\ bodyText = "none"
  /\ fetchedBlob = "none"
  /\ trace = <<>>
  /\ failure = NoFailure
  /\ failedAt = "none"
  /\ result = "none"
  /\ runKey = FALSE

\* Mutation of Throw: the error is caught and the run goes on polling.
ThrowAndRetry(kind, message) ==
  /\ pc' = "waiting"
  /\ failure' = [kind |-> kind, message |-> message]
  /\ failedAt' = pc

\* throw new Error(...) out of the run
Throw(kind, message) ==
  /\ pc' = "failed"
  /\ failure' = [kind |-> kind, message |-> message]
  /\ failedAt' = pc

\* Lines 129-145 with the handle op held and the trace tr so far: the loop
\* test, the error and link checks, and the start of the download.
afterOperation(op, tr) ==
  IF mustPoll(op)
  THEN /\ pc' = "waiting"
       /\ trace' = Append(tr, "delay:start")
       /\ UNCHANGED <<failure, failedAt, fetchCount>>
  ELSE IF operationError(op) # NoError
  THEN /\ Throw("JobFailed", <<"Video generation failed: ", operationError(op)>>)
       /\ trace' = tr
       /\ UNCHANGED fetchCount
  ELSE IF downloadLink(op) = "none"
  THEN /\ Throw("MissingArtifact", <<"Could not retrieve video download link.">>)
       /\ trace' = tr
       /\ UNCHANGED fetchCount
  ELSE /\ pc' = "fetching"
       /\ trace' = tr \o <<"emit:Downloading", "call:fetch">>
       /\ fetchCount' = fetchCount + 1
       /\ UNCHANGED <<failure, failedAt>>

\* handleVideoOperation(getOperation, onProgress) up to its first await.
HandleVideoOperation(apiKey) ==
  /\ pc = "idle"
  /\ runKey' = apiKey
  /\ IF keyMissing(apiKey)
     THEN /\ Throw("Config", <<"API_KEY environment variable is not set">>)
          /\ UNCHANGED <<trace, submitCount>>
     ELSE /\ pc' = "submitting"
          /\ trace' = startTrace
          /\ submitCount' = submitCount + 1
          /\ UNCHANGED <<failure, failedAt>>
  /\ UNCHANGED <<operation, job, served, submitDone, queryCount, fetchCount,
                 response, bodyText, fetchedBlob, result>>

\* await getOperation() returns: the provider accepted the job, which will
\* answer k status queries with "not done" and then with the handle fin.
SubmitReturns(done, k, fin) ==
  /\ pc = "submitting"
  /\ job' = [k |-> k, final |-> fin]
  /\ submitDone' = done
  /\ operation' = IF done THEN fin ELSE PendingHandle
  /\ afterOperation(operation', Append(trace, "emit:Initiated"))
  /\ UNCHANGED <<served, submitCount, queryCount, response, bodyText,
                 fetchedBlob, result,
                 runKey>>

\* The 10 s timer fires: emit "Checking video status..." and query.
DelayElapsed ==
  /\ pc = "waiting"
  /\ queryCount < MaxQueries
  /\ pc' = "polling"
  /\ trace' = trace \o <<"delay:end", "emit:Checking", pollCall>>
  /\ IF pollCall = "call:query"
     THEN queryCount' = queryCount + 1 /\ UNCHANGED submitCount
     ELSE submitCount' = submitCount + 1 /\ UNCHANGED queryCount
  /\ UNCHANGED <<operation, job, served, submitDone, fetchCount, response,
                 bodyText, fetchedBlob, failure, failedAt, result, runKey>>

\* await getVideosOperation(...) returns the job's current handle.
QueryReturns ==
  /\ pc = "polling"
  /\ served' = served + 1
  /\ operation' = IF served < job.k THEN PendingHandle ELSE job.final
  /\ afterOperation(operation', trace)
  /\ UNCHANGED <<job, submitDone, submitCount, queryCount, response,
                 bodyText, fetchedBlob, result,
                 runKey>>

\* await fetch(...) returns a response.
FetchReturns(ok, statusText) ==
  /\ pc = "fetching"
  /\ response' = [ok |-> ok, statusText |-> statusText]
  /\ IF ~responseOk(response')
     THEN /\ pc' = "readingText"
          /\ trace' = Append(trace, "call:text")
     ELSE /\ pc' = "readingBlob"
          /\ trace' = Append(trace, "call:blob")
  /\ UNCHANGED <<operation, job, served, submitDone, submitCount, queryCount,
                 fetchCount, bodyText, fetchedBlob, failure, failedAt, result,
                 runKey>>

\* await response.text() returns: throw the download error.
TextReturns(body) ==
  /\ pc = "readingText"
  /\ bodyText' = body
  /\ Throw("Download", <<"Failed to download video: ", response.statusText,
                         ". Details: ", body>>)
  /\ UNCHANGED <<operation, job, served, submitDone, submitCount, queryCount,
                 fetchCount, response, fetchedBlob, trace, result,
                 runKey>>

\* await response.blob() returns: emit "Download complete." and return the URL.
BlobReturns(b) ==
  /\ pc = "readingBlob"
  /\ fetchedBlob' = b
  /\ trace' = trace \o <<"emit:DownloadComplete", "call:createObjectURL">>
  /\ result' = createObjectURL(b)
  /\ pc' = "done"
  /\ UNCHANGED <<operation, job, served, submitDone, submitCount, queryCount,
                 fetchCount, response, bodyText, failure, failedAt, runKey>>

\* The awaited provider or transport call rejects: the run throws its error.
AwaitRejects ==
  /\ pc \in {"submitting", "polling", "fetching", "readingText", "readingBlob"}
  /\ Throw("Upstream", <<"upstream failure">>)
  /\ UNCHANGED <<operation, job, served, submitDone, submitCount, queryCount,
                 fetchCount, response, bodyText, fetchedBlob, trace, result,
                 runKey>>

PollerNext ==
  \/ \E key \in BOOLEAN : HandleVideoOperation(key)
  \/ \E d \in BOOLEAN, k \in 0..MaxK, fin \in FinalHandles : SubmitReturns(d, k, fin)
  \/ DelayElapsed
  \/ QueryReturns
  \/ \E ok \in BOOLEAN, st \in StatusTexts : FetchReturns(ok, st)
  \/ \E body \in BodyTexts : TextReturns(body)
  \/ \E b \in Blobs : BlobReturns(b)
  \/ AwaitRejects

(* ------------------------------------------------------------------ *)
(* Job poller: properties                                              *)
(* ------------------------------------------------------------------ *)

Contains(message, part) == \E j \in 1..Len(message) : message[j] = part
Emitted(e) == Contains(trace, e)
Count(tr, e) == Cardinality({j \in 1..Len(tr) : tr[j] = e})

\* C5: when submit hands back a pending handle and the status query
\* answers "not done" k times and "done" on the next call, the run issues
\* exactly k + 1 status queries; a run that completes has fetched the
\* artifact once and returns the object URL of the fetched blob.
C5_PollerTermination ==
  /\ (~submitDone /\ operation.done) => queryCount = job.k + 1
  /\ (~submitDone /\ ~operation.done) => queryCount <= job.k + 1
  /\ pc = "done" =>
        /\ fetchCount = 1
        /\ fetchedBlob \in Blobs
        /\ result = <<"blob:", fetchedBlob>>

\* A run that polled through two "not done" answers has completed.
C5_Witness == pc = "done" /\ ~submitDone /\ job.k = 2 /\ queryCount = 3

\* C6: a done handle with error message X makes the run fail with an error
\* whose message contains X; the artifact is never fetched and neither
\* "Downloading" nor "Download complete" is emitted.
C6_FailurePropagation ==
  (operation.done /\ operation.error # NoError) =>
     /\ pc = "failed"
     /\ failure.kind = "JobFailed"
     /\ Contains(failure.message, operation.error)
     /\ fetchCount = 0
     /\ ~Emitted("emit:Downloading")
     /\ ~Emitted("emit:DownloadComplete")
     /\ result = "none"

\* The second status query returned a handle with error "X" and a payload.
C6_Witness ==
  /\ operation.done /\ operation.error = "X" /\ operation.payload = "uri"
  /\ queryCount = 2 /\ pc = "failed"

\* C7: a done handle without error and without artifact locator makes the
\* run fail with the missing-link error; the artifact is never fetched.
C7_MissingArtifact ==
  (operation.done /\ operation.error = NoError /\ operation.payload # "uri") =>
     /\ pc = "failed"
     /\ failure.kind = "MissingArtifact"
     /\ fetchCount = 0
     /\ ~Emitted("call:fetch")
     /\ result = "none"

\* A status query returned a successful handle whose video has no uri.
C7_Witness ==
  /\ operation.done /\ operation.error = NoError /\ operation.payload = "noUri"
  /\ queryCount = 1 /\ pc = "failed"

\* C8: after a non-success fetch response the run emits no "Download
\* complete" and creates no object URL, and once the body text is read it
\* has failed with the download error carrying status text and body text.
C8_DownloadError ==
  (response # NoResponse /\ ~response.ok) =>
     /\ pc \in {"readingText", "failed"}
     /\ ~Emitted("emit:DownloadComplete")
     /\ ~Emitted("call:createObjectURL")
     /\ result = "none"
     /\ bodyText # "none" =>
          /\ pc = "failed"
          /\ failure.kind = "Download"
          /\ failure.message = <<"Failed to download video: ",
                                 response.statusText, ". Details: ", bodyText>>

\* The body of a "Not Found" response has been read.
C8_Witness ==
  /\ response # NoResponse /\ ~response.ok /\ response.statusText = "Not Found"
  /\ bodyText = "gone" /\ pc = "failed"

\* The steps between the positions of a run, in the order SUBMITTING,
\* WAITING / POLLING, (RESOLVING,) FETCHING, DONE, with FAILED as exit.
StateOrder ==
  {<<"idle", "submitting">>, <<"idle", "failed">>,
   <<"submitting", "waiting">>, <<"submitting", "fetching">>,
   <<"submitting", "failed">>,
   <<"waiting", "polling">>,
   <<"polling", "waiting">>, <<"polling", "fetching">>, <<"polling", "failed">>,
   <<"fetching", "readingText">>, <<"fetching", "readingBlob">>,
   <<"fetching", "failed">>,
   <<"readingText", "failed">>,
   <<"readingBlob", "done">>, <<"readingBlob", "failed">>}

C9_StateInvariant ==
  /\ pc \in PollerStates
  /\ queryCount > 0 => submitCount = 1
  /\ \A j \in 1..Len(trace) : trace[j] = "call:query" =>
        /\ j > 3
        /\ trace[j - 2] = "delay:end"
        /\ trace[j - 3] = "delay:start"
        /\ \E i \in 1..(j - 1) : trace[i] = "call:submit"
  /\ Count(trace, "call:query") = queryCount
  /\ Count(trace, "delay:end") = queryCount
  /\ pc \in {"waiting", "polling"} => ~operation.done
  /\ fetchCount > 0 =>
        /\ operation.done
        /\ operation.error = NoError
        /\ operation.payload = "uri"
  /\ fetchCount <= 1

C9_StateStep ==
  /\ pc' # pc => <<pc, pc'>> \in StateOrder
  /\ operation.done => queryCount' = queryCount
  /\ queryCount' # queryCount => (pc = "waiting" /\ ~operation.done)
  /\ fetchCount' # fetchCount => (operation'.done /\ pc' = "fetching")

\* C9: a run moves through SUBMITTING, WAITING / POLLING, RESOLVING,
\* FETCHING, DONE in this order and may leave to FAILED; the job is submitted
\* before any status query, every status query follows one full delay and
\* is issued only while the held handle is not done, and the artifact is
\* fetched only with a done handle that has no error and has a locator.
C9_StateMachine == []C9_StateInvariant /\ [][C9_StateStep]_vars

\* The run is downloading after two status queries.
C9_Witness == pc = "fetching" /\ queryCount = 2 /\ fetchCount = 1

IndexOf(tr, e) == CHOOSE j \in 1..Len(tr) : tr[j] = e

\* The part of the event order that C10 states as written and as amended.
C10_Common ==
  /\ Count(trace, "emit:Starting") <= 1
  /\ Count(trace, "emit:Checking") = Count(trace, "call:query")
  /\ \A j \in 1..Len(trace) : trace[j] = "call:query" =>
        (j > 1 /\ trace[j - 1] = "emit:Checking")
  /\ Count(trace, "emit:Downloading") <= 1
  /\ Count(trace, "emit:Downloading") = Count(trace, "call:fetch")
  /\ \A j \in 1..Len(trace) : trace[j] = "call:fetch" =>
        (j > 1 /\ trace[j - 1] = "emit:Downloading")
  /\ \A j \in 1..Len(trace) : trace[j] = "emit:DownloadComplete" =>
        /\ response.ok /\ fetchedBlob # "none" /\ pc = "done"
        /\ Emitted("call:fetch") /\ IndexOf(trace, "call:fetch") < j
        /\ \A i \in (j + 1)..Len(trace) : ~IsEmit(trace[i])
  /\ pc = "done" => Emitted("emit:DownloadComplete")

\* C10 (as stated): submit is invoked and then "Starting" is emitted.
C10_Original ==
  /\ C10_Common
  /\ submitCount > 0 =>
        /\ Emitted("call:submit") /\ Emitted("emit:Starting")
        /\ IndexOf(trace, "call:submit") < IndexOf(trace, "emit:Starting")

\* C10 (amended): "Starting" is emitted first and submit is invoked right
\* after it (a second event, "Operation initiated", follows the return of
\* submit); one "checking status" event is emitted per status query,
\* "Downloading" once before the fetch, and "Download complete" only after
\* a successful fetch and as the final event.
C10_ProgressOrder ==
  /\ C10_Common
  /\ submitCount > 0 =>
        /\ Len(trace) >= 2
        /\ trace[1] = "emit:Starting"
        /\ trace[2] = "call:submit"
  /\ Emitted("emit:Initiated") =>
        /\ trace[3] = "emit:Initiated"
        /\ Count(trace, "emit:Initiated") = 1

\* A run has completed after one status query.
C10_Witness ==
  /\ pc = "done" /\ queryCount = 1
  /\ Events(trace) = <<"emit:Starting", "emit:Initiated", "emit:Checking",
                       "emit:Downloading", "emit:DownloadComplete">>

Terminal == pc \in {"done", "failed"}

\* C23: a run that has submitted its job is in a terminal state only if
\* the handle it holds is done or one of its calls failed; while the handle
\* is not done and no call has failed it stays in the poll loop, where the
\* next status query is never refused, however many went before; and when
\* the job eventually reports done and every call returns, the run
\* eventually reaches a terminal state.
C23_NoRetryLimit ==
  /\ []((submitCount > 0 /\ Terminal)
          => (operation.done \/ failure.kind = "Upstream"))
  /\ []((submitCount > 0 /\ ~operation.done /\ failure = NoFailure)
          => pc \in {"submitting", "waiting", "polling"})
  /\ [](pc = "waiting" => ENABLED DelayElapsed)
  /\ (submitCount > 0) ~> Terminal

\* A run has completed after the largest explored number of "not done"
\* answers.
C23_Witness ==
  /\ pc = "done" /\ ~submitDone
  /\ job.k = MaxK /\ queryCount = MaxK + 1

\* C27: when the job submission or a status query rejects, the run fails
\* in that step with the error of the rejected call, and a failed run
\* issues no further status query, fetches no artifact and emits no
\* further progress event.
C27_FailedIsTerminal ==
  /\ []((failedAt \in {"submitting", "polling"} /\ failure.kind = "Upstream")
          => /\ pc = "failed"
             /\ failure.message = <<"upstream failure">>
             /\ fetchCount = 0
             /\ result = "none")
  /\ [][(pc = "failed" \/ failedAt # "none")
          => /\ pc' = "failed"
             /\ trace' = trace
             /\ submitCount' = submitCount
             /\ queryCount' = queryCount
             /\ fetchCount' = fetchCount
             /\ failure' = failure]_vars

\* The second status query of a run was rejected.
C27_Witness ==
  /\ pc = "failed" /\ failedAt = "polling" /\ failure.kind = "Upstream"
  /\ queryCount = 2 /\ fetchCount = 0

(* ------------------------------------------------------------------ *)
(* Gateway module: start-up and the five request functions             *)
(* ------------------------------------------------------------------ *)

GatewayOps == {"generateImage", "editImage", "analyzeImage",
               "analyzeVideoFrames", "analyzeVideoWithImage"}

\* The operations that await fileToGenerativePart(file) before the request.
readsFile(op) == op \in {"editImage", "analyzeImage", "analyzeVideoWithImage"}

GatewayInit ==
  /\ moduleState = "unloaded"
  /\ gwOp = "none"
  /\ gwPc = "idle"
  /\ gwRequests = 0
  /\ gwResult = "none"
  /\ gwFailure = "none"

\* Evaluation of the module: the start-up check and the shared client.
LoadModule(apiKey) ==
  /\ moduleState = "unloaded"
  /\ moduleState' = IF keyMissing(apiKey) THEN "failed" ELSE "loaded"
  /\ UNCHANGED <<gwOp, gwPc, gwRequests, gwResult, gwFailure>>

\* One of the five request functions is called, up to its first await.
GatewayCall(op) ==
  /\ moduleState = "loaded"
  /\ gwPc = "idle"
  /\ gwOp' = op
  /\ IF readsFile(op)
     THEN gwPc' = "readingFile" /\ UNCHANGED gwRequests
     ELSE gwPc' = "requesting" /\ gwRequests' = gwRequests + 1
  /\ UNCHANGED <<moduleState, gwResult, gwFailure>>

\* fileToBase64: reader.onload; the provider request is issued.
FileReadReturns ==
  /\ gwPc = "readingFile"
  /\ gwPc' = "requesting"
  /\ gwRequests' = gwRequests + 1
  /\ UNCHANGED <<moduleState, gwOp, gwResult, gwFailure>>

\* fileToBase64: reader.onerror
FileReadFails ==
  /\ gwPc = "readingFile"
  /\ gwPc' = "failed"
  /\ gwFailure' = "file read error"
  /\ UNCHANGED <<moduleState, gwOp, gwRequests, gwResult>>

\* The provider request returns a response, with or without media content.
ProviderReturns(content) ==
  /\ gwPc = "requesting"
  /\ IF gwOp = "generateImage"
     THEN IF content
          THEN gwPc' = "done" /\ gwResult' = "data:image/jpeg" /\ UNCHANGED gwFailure
          ELSE gwPc' = "failed" /\ gwFailure' = "TypeError" /\ UNCHANGED gwResult
     ELSE IF gwOp = "editImage"
     THEN IF content
          THEN gwPc' = "done" /\ gwResult' = "data:image/png" /\ UNCHANGED gwFailure
          ELSE gwPc' = "failed" /\ gwFailure' = "No image generated" /\ UNCHANGED gwResult
     ELSE gwPc' = "done" /\ gwResult' = "text" /\ UNCHANGED gwFailure
  /\ UNCHANGED <<moduleState, gwOp, gwRequests>>

\* The provider request rejects: the rejection leaves the function.
ProviderRejects ==
  /\ gwPc = "requesting"
  /\ gwPc' = "failed"
  /\ gwFailure' = "upstream failure"
  /\ UNCHANGED <<moduleState, gwOp, gwRequests, gwResult>>

GatewayNext ==
  \/ \E key \in BOOLEAN : LoadModule(key)
  \/ \E op \in GatewayOps : GatewayCall(op)
  \/ FileReadReturns
  \/ FileReadFails
  \/ \E content \in BOOLEAN : ProviderReturns(content)
  \/ ProviderRejects

(* ------------------------------------------------------------------ *)
(* Gateway module: properties                                          *)
(* ------------------------------------------------------------------ *)

\* C14: nothing but the status query is repeated: a run submits the job
\* exactly once (not at all when it stops at the key check) and fetches the
\* artifact at most once, and an invocation of one of the five request
\* functions issues at most one provider request.
C14_NoRetries ==
  /\ submitCount <= 1
  /\ (pc # "idle" /\ failure.kind # "Config") => submitCount = 1
  /\ Count(trace, "call:submit") = submitCount
  /\ fetchCount <= 1
  /\ Count(trace, "call:fetch") = fetchCount
  /\ gwRequests <= 1
  /\ gwPc \in {"requesting", "done"} => gwRequests = 1

\* A run failed after three status queries and a gateway request was rejected.
C14_Witness ==
  /\ pc = "failed" /\ queryCount = 3 /\ submitCount = 1
  /\ gwPc = "failed" /\ gwFailure = "upstream failure" /\ gwRequests = 1

\* C15: when the key is absent at module load, loading fails and no gateway
\* operation or video run is ever started; when the key is absent at the
\* start of a video run, the run fails before any progress event and before
\* the submission, so that every submit, query and fetch of a run is made
\* by a run that read a key.
C15_KeyRequired ==
  /\ moduleState = "failed" =>
        /\ gwOp = "none" /\ gwPc = "idle" /\ gwRequests = 0
        /\ pc = "idle" /\ trace = <<>>
  /\ (pc # "idle" /\ ~runKey) =>
        /\ pc = "failed"
        /\ failure.kind = "Config"
        /\ trace = <<>>
        /\ submitCount = 0 /\ queryCount = 0 /\ fetchCount = 0
  /\ (submitCount + queryCount + fetchCount > 0) =>
        (runKey /\ moduleState = "loaded")
  /\ gwRequests > 0 => moduleState = "loaded"

\* The module loaded with a key and a video run then started without one.
C15_Witness ==
  /\ moduleState = "loaded" /\ pc = "failed" /\ ~runKey
  /\ failure.kind = "Config"

(* ------------------------------------------------------------------ *)
(* The application: App, the five feature components                   *)
(* ------------------------------------------------------------------ *)

\* types.ts: Feature
Features == {"generate", "edit", "analyze", "video", "generate-video"}

Null == "null"

\* reassuringMessages.length
ReassuringCount == 6

ValidationMessages ==
  {"Please enter a prompt.",
   "Please provide an image and an editing prompt.",
   "Please upload an image to analyze.",
   "Please upload a video to analyze.",
   "Please upload an image to use for context.",
   "Please provide a prompt and at least one image."}

KeyMissingMessage == "API_KEY environment variable is not set"
EntityNotFound == "Requested entity was not found"

\* Mutation of includes: the two strings are compared as wholes.
includesWhole(message, phrase) == message = phrase

\* errorMessage.includes(phrase)
includes(message, phrase) ==
  \E i \in 1..(Len(message) - Len(phrase) + 1) :
     SubSeq(message, i, i + Len(phrase) - 1) = phrase

\* The message of the provider's 404 answer, and the message
\* handleVideoOperation throws for an operation that ended with an error:
\* `Video generation failed: ${operation.error.message}`.
NotFoundResponse == EntityNotFound \o "."
operationFailed(message) == "Video generation failed: " \o message
InvalidKeyMessage ==
  "Your API Key was not found or is invalid. Please select a valid API key."

\* Message of an error a provider or transport call rejects with; a video
\* run may also fail with the provider's entity-not-found message.
UpstreamMessage == "upstream failure"

\* Progress messages of a video run after its first one.
StartingMessage == "Starting video generation operation..."
PreparingMessage == "Preparing images for video generation..."
CheckingMessage == "Checking video status..."
CompleteMessage == "Download complete."
RunMessages ==
  {"Operation initiated. Waiting for video to be processed.",
   "Video generated! Downloading video data..."}

\* The state a feature component is mounted with.
MountState(f) ==
  [prompt |-> (f = "generate-video"),
   file |-> FALSE,
   context |-> FALSE,
   mode |-> IF f = "video" THEN "videoOnly"
            ELSE IF f = "generate-video" THEN "text" ELSE "none",
   isLoading |-> FALSE,
   error |-> Null,
   result |-> Null,
   progress |-> "",
   loadingMessage |-> "",
   videoUrl |-> 0,
   hasApiKey |-> IF f = "generate-video" THEN Null ELSE "yes"]

\* Mutation of validationError: ImageGenerate does not check its prompt.
validationErrorNoPrompt(f, u) ==
  IF f = "edit" /\ (~u.prompt \/ ~u.file)
  THEN "Please provide an image and an editing prompt."
  ELSE "none"

\* The check at the head of each handleSubmit: the message it shows,
\* or "none" when the inputs are complete.
validationError(f, u) ==
  IF f = "generate"
  THEN IF ~u.prompt THEN "Please enter a prompt." ELSE "none"
  ELSE IF f = "edit"
  THEN IF ~u.prompt \/ ~u.file
       THEN "Please provide an image and an editing prompt." ELSE "none"
  ELSE IF f = "analyze"
  THEN IF ~u.file THEN "Please upload an image to analyze." ELSE "none"
  ELSE IF f = "video"
  THEN IF ~u.file THEN "Please upload a video to analyze."
       ELSE IF u.mode = "videoWithImage" /\ ~u.context
       THEN "Please upload an image to use for context." ELSE "none"
  ELSE IF ~u.prompt \/ (u.mode = "images" /\ ~u.file)
       THEN IF u.mode = "images"
            THEN "Please provide a prompt and at least one image."
            ELSE "Please enter a prompt."
       ELSE "none"

\* Mutation of submitDisabled: the control ignores isLoading.
submitDisabledNotLoading(f, u) ==
  IF f = "generate" THEN FALSE
  ELSE IF f \in {"edit", "analyze"} THEN ~u.file
  ELSE IF f = "video"
  THEN ~u.file \/ (u.mode = "videoWithImage" /\ ~u.context)
  ELSE ~u.prompt \/ (u.mode = "images" /\ ~u.file)

\* The disabled attribute of each submit button.
submitDisabled(f, u) ==
  IF f = "generate" THEN u.isLoading
  ELSE IF f \in {"edit", "analyze"} THEN u.isLoading \/ ~u.file
  ELSE IF f = "video"
  THEN u.isLoading \/ ~u.file \/ (u.mode = "videoWithImage" /\ ~u.context)
  ELSE u.isLoading \/ ~u.prompt \/ (u.mode = "images" /\ ~u.file)

\* The form of VideoGenerate is rendered only once a key is selected.
formRendered(f, u) == f = "generate-video" => u.hasApiKey = "yes"

Ticker(i, k) == [kind |-> "ticker", owner |-> i, index |-> k]
Delay(r) == [kind |-> "delay", owner |-> r, index |-> 0]
TickersOf(i) == {t \in timers : t.kind = "ticker" /\ t.owner = i}

InFlight(r) == requests[r].stage # "settled"
Mounted(r) == requests[r].inst = inst

AppInit ==
  /\ activeFeature = "generate"
  /\ inst = 1
  /\ ui = MountState("generate")
  /\ requests = <<>>
  /\ timers = {}
  /\ intervalRefs = {}
  /\ lastAction = [kind |-> "init", req |-> 0, outcome |-> "none",
                   message |-> "none"]

Did(kind, r, outcome) ==
  lastAction' = [kind |-> kind, req |-> r, outcome |-> outcome,
                 message |-> "none"]

\* The handler ended a request with a failure whose message is message.
DidFail(kind, r, message) ==
  lastAction' = [kind |-> kind, req |-> r, outcome |-> "fail",
                 message |-> message]

\* Mutation of unmountCleanup: the clean-up clears every timer.
unmountCleanupAll(ts, i) == {}

\* The unmount clean-up of VideoGenerate: clearInterval of the ref's timer.
\* ts is the set of timers before the clean-up.
unmountCleanup(ts, i) ==
  IF i \in intervalRefs THEN {t \in ts : ~(t.kind = "ticker" /\ t.owner = i)}
  ELSE ts

\* App: onClick={() => setActiveFeature(feature.id)}; the component of the
\* old feature unmounts and the one of the new feature mounts.
SelectFeature(f) ==
  /\ f # activeFeature
  /\ inst < MaxMounts
  /\ activeFeature' = f
  /\ inst' = inst + 1
  /\ ui' = MountState(f)
  /\ timers' = IF activeFeature = "generate-video"
               THEN unmountCleanup(timers, inst) ELSE timers
  /\ Did("mount", 0, "none")
  /\ UNCHANGED <<requests, intervalRefs>>

\* VideoGenerate: checkKey() of the mount effect returns.
CheckKeyReturns(hasKey) ==
  /\ activeFeature = "generate-video"
  /\ ui.hasApiKey = Null
  /\ ui' = [ui EXCEPT !.hasApiKey = IF hasKey THEN "yes" ELSE "no"]
  /\ Did("ui", 0, "none")
  /\ UNCHANGED <<activeFeature, inst, requests, timers, intervalRefs>>

\* VideoGenerate.handleSelectKey, with the outcome of openSelectKey().
HandleSelectKey(opened) ==
  /\ activeFeature = "generate-video"
  /\ ui.hasApiKey = "no"
  /\ ui' = IF opened
           THEN [ui EXCEPT !.hasApiKey = "yes", !.error = Null]
           ELSE [ui EXCEPT !.error = "Could not open API key selection dialog."]
  /\ Did("ui", 0, "none")
  /\ UNCHANGED <<activeFeature, inst, requests, timers, intervalRefs>>

\* onChange of the prompt field: setPrompt.
SetPrompt(filled) ==
  /\ formRendered(activeFeature, ui)
  /\ ~ui.isLoading
  /\ ui' = [ui EXCEPT !.prompt = filled]
  /\ Did("ui", 0, "none")
  /\ UNCHANGED <<activeFeature, inst, requests, timers, intervalRefs>>

\* onFileChange of the main FileUpload: a file is chosen or removed.
\* ImageEdit.handleFileChange also clears the edited image.
SetFile(present) ==
  /\ activeFeature \in {"edit", "analyze", "video"}
        \/ (activeFeature = "generate-video" /\ ui.mode = "images")
  /\ formRendered(activeFeature, ui)
  /\ ~ui.isLoading
  /\ ui' = IF activeFeature = "edit"
           THEN [ui EXCEPT !.file = present, !.result = Null]
           ELSE [ui EXCEPT !.file = present]
  /\ Did("ui", 0, "none")
  /\ UNCHANGED <<activeFeature, inst, requests, timers, intervalRefs>>

\* VideoAnalyze: onFileChange of the context image FileUpload.
SetContextImage(present) ==
  /\ activeFeature = "video"
  /\ ui.mode = "videoWithImage"
  /\ ~ui.isLoading
  /\ ui' = [ui EXCEPT !.context = present]
  /\ Did("ui", 0, "none")
  /\ UNCHANGED <<activeFeature, inst, requests, timers, intervalRefs>>

\* VideoAnalyze.handleModeChange and the mode buttons of VideoGenerate;
\* neither is disabled while a request is running.
ChangeMode(m) ==
  /\ \/ activeFeature = "video" /\ m \in {"videoOnly", "videoWithImage"}
     \/ /\ activeFeature = "generate-video" /\ m \in {"text", "images"}
        /\ formRendered(activeFeature, ui)
  /\ ui' = IF activeFeature = "video"
           THEN [ui EXCEPT !.mode = m, !.prompt = FALSE, !.file = FALSE,
                           !.context = FALSE, !.result = Null,
                           !.error = Null, !.progress = ""]
           ELSE [ui EXCEPT !.mode = m, !.file = FALSE]
  /\ Did("ui", 0, "none")
  /\ UNCHANGED <<activeFeature, inst, requests, timers, intervalRefs>>

reassuringMessages ==
  <<"Hold tight, the AI is dreaming up your video...",
    "Rendering pixels into motion...",
    "This is where the magic happens. It can take a few minutes.",
    "Composing your visual masterpiece...",
    "Just a little longer, great things are coming!",
    "The video generation process is underway...">>

\* Mutation of progressStops: progressCallback does not stop the ticker.
progressStopsNothing(i) == {}

\* The instances whose ticker progressCallback of instance i stops:
\* it calls stopLoadingMessages() before setLoadingMessage(message).
progressStops(i) == {i}

\* Mutation of timersAfterStop: clearInterval is not called.
timersAfterStopKeeps(ts, rs, is) == ts

\* stopLoadingMessages of each instance in is, on timers ts and refs rs.
timersAfterStop(ts, rs, is) ==
  {t \in ts : ~(t.kind = "ticker" /\ t.owner \in (is \cap rs))}

\* Mutation of afterSettle: a failure leaves no error message.
afterSettleSwallow(f, u, outcome, value) ==
  LET done == IF outcome = "ok" THEN [u EXCEPT !.result = value] ELSE u
  IN IF f = "video" THEN [done EXCEPT !.isLoading = FALSE, !.progress = ""]
     ELSE [done EXCEPT !.isLoading = FALSE]

\* What a settled request leaves in the state of its component:
\* the try, catch and finally blocks of handleSubmit after the await.
afterSettle(f, u, outcome, value) ==
  LET done == IF outcome = "ok" THEN [u EXCEPT !.result = value]
              ELSE IF f = "generate-video" /\ includes(value, EntityNotFound)
              THEN [u EXCEPT !.error = InvalidKeyMessage, !.hasApiKey = "no"]
              ELSE [u EXCEPT !.error = value]
  IN IF f = "video" THEN [done EXCEPT !.isLoading = FALSE, !.progress = ""]
     ELSE [done EXCEPT !.isLoading = FALSE]

NewRequest(f, stage, lastMsg) ==
  [feature |-> f, inst |-> inst, stage |-> stage, lastMsg |-> lastMsg,
   url |-> 0]

\* handleSubmit of the mounted component, fired by its submit control.
\* apiKey: whether process.env.API_KEY is set when a text-mode video
\* generation reaches handleVideoOperation inside this call.
HandleSubmit(apiKey) ==
  LET f == activeFeature
      started == [ui EXCEPT !.isLoading = TRUE, !.error = Null,
                            !.result = Null, !.videoUrl = 0]
      r == Len(requests) + 1
  IN
  /\ formRendered(f, ui)
  /\ ~submitDisabled(f, ui)
  /\ IF validationError(f, ui) # "none"
     THEN /\ ui' = [ui EXCEPT !.error = validationError(f, ui)]
          /\ Did("submit", 0, "invalid")
          /\ UNCHANGED <<requests, timers, intervalRefs>>
     ELSE
       /\ Len(requests) < MaxRequests
       /\ IF f \in {"generate", "edit", "analyze"}
          THEN /\ ui' = started
               /\ requests' = Append(requests, NewRequest(f, "gateway", "none"))
               /\ Did("submit", r, "none")
               /\ UNCHANGED <<timers, intervalRefs>>
          ELSE IF f = "video"
          THEN /\ ui' = [started EXCEPT !.progress = "Starting analysis..."]
               /\ requests' = Append(requests, NewRequest(f, "sampling", "none"))
               /\ Did("submit", r, "none")
               /\ UNCHANGED <<timers, intervalRefs>>
          ELSE \* generate-video: startLoadingMessages, then the service runs
               \* up to its first await inside this call
               LET ticking == timers \cup {Ticker(inst, 0)}
                   refs == intervalRefs \cup {inst}
               IN
               IF ui.mode = "text" /\ ~apiKey
               THEN \* the service rejects before any progress; catch and
                    \* finally run before any timer can fire
                    /\ ui' = afterSettle(f, [started EXCEPT !.loadingMessage =
                                               reassuringMessages[1]],
                                         "fail", KeyMissingMessage)
                    /\ requests' = Append(requests,
                                          NewRequest(f, "settled", "none"))
                    /\ timers' = timersAfterStop(ticking, refs, {inst})
                    /\ intervalRefs' = refs \ {inst}
                    /\ DidFail("submit", r, KeyMissingMessage)
               ELSE LET m == IF ui.mode = "text" THEN StartingMessage
                             ELSE PreparingMessage
                    IN
                    /\ ui' = [started EXCEPT !.loadingMessage = m]
                    /\ requests' = Append(requests,
                         NewRequest(f, IF ui.mode = "text" THEN "call"
                                       ELSE "reading", m))
                    /\ timers' = timersAfterStop(ticking, refs,
                                                 progressStops(inst))
                    /\ intervalRefs' = refs \ progressStops(inst)
                    /\ Did("submit", r, "none")
  /\ UNCHANGED <<activeFeature, inst>>

\* onProgress(m) of request r: progressCallback of the instance that
\* started it.  rs is the request table to update.
Progress(r, m, rs, ts) ==
  LET i == requests[r].inst IN
  /\ requests' = [rs EXCEPT ![r].lastMsg = m]
  /\ timers' = timersAfterStop(ts, intervalRefs, progressStops(i))
  /\ intervalRefs' = intervalRefs \ progressStops(i)
  /\ ui' = IF Mounted(r) THEN [ui EXCEPT !.loadingMessage = m] ELSE ui

\* The awaited service call of request r settles: the rest of handleSubmit.
\* State updates of an unmounted component are dropped.
Settles(r, outcome, value) ==
  LET f == requests[r].feature
      i == requests[r].inst
  IN
  /\ requests' = [requests EXCEPT ![r].stage = "settled"]
  /\ ui' = IF Mounted(r) THEN afterSettle(f, ui, outcome, value) ELSE ui
  /\ timers' = IF f = "generate-video"
               THEN timersAfterStop(timers, intervalRefs, {i}) ELSE timers
  /\ intervalRefs' = IF f = "generate-video" THEN intervalRefs \ {i}
                     ELSE intervalRefs
  /\ IF outcome = "fail" THEN DidFail("settle", r, value)
     ELSE Did("settle", r, outcome)
  /\ UNCHANGED <<activeFeature, inst>>

Staged(r, stage) == [requests EXCEPT ![r].stage = stage]

\* generateVideoFromImages: Promise.all of the file reads settles; on
\* success handleVideoOperation runs up to its first await.
FilesRead(r, ok, apiKey) ==
  /\ r \in 1..Len(requests)
  /\ requests[r].stage = "reading"
  /\ IF ~ok THEN Settles(r, "fail", "An unknown error occurred.")
     ELSE IF ~apiKey THEN Settles(r, "fail", KeyMissingMessage)
     ELSE /\ Progress(r, StartingMessage, Staged(r, "call"), timers)
          /\ Did("progress", r, "none")
          /\ UNCHANGED <<activeFeature, inst>>

\* handleVideoOperation of request r: an awaited call (submission, status
\* query, download, body read) returns; m is the progress message emitted
\* before the next await ("none" when there is none) and next is what the
\* run awaits then.
RunCallReturns(r, m, next) ==
  /\ r \in 1..Len(requests)
  /\ requests[r].stage = "call"
  /\ next \in {"call", "delay"}
  /\ LET rs == Staged(r, next)
         ts == IF next = "delay" THEN timers \cup {Delay(r)} ELSE timers
     IN IF m = "none"
        THEN /\ requests' = rs
             /\ timers' = ts
             /\ UNCHANGED <<ui, intervalRefs>>
        ELSE Progress(r, m, rs, ts)
  /\ Did("progress", r, "none")
  /\ UNCHANGED <<activeFeature, inst>>

\* URL.createObjectURL(blob) of the run of request r: a new URL per run,
\* numbered by the request (0 stands for null).
videoObjectURL(r) == r

\* The generated-video URLs passed to URL.revokeObjectURL: the program
\* has no such call.
revokedVideoUrls == {}

\* handleVideoOperation of request r ends: the last awaited call returns
\* the video bytes ("Download complete.", then the object URL), or any
\* awaited call rejects or the run throws.
RunEnds(r, outcome, value) ==
  /\ r \in 1..Len(requests)
  /\ requests[r].stage = "call"
  /\ IF outcome = "ok"
     THEN /\ requests' = [requests EXCEPT ![r].stage = "settled",
                                          ![r].lastMsg = CompleteMessage,
                                          ![r].url = videoObjectURL(r)]
          /\ ui' = IF Mounted(r)
                   THEN afterSettle("generate-video",
                                    [ui EXCEPT !.loadingMessage = CompleteMessage,
                                               !.videoUrl = videoObjectURL(r)],
                                    "ok", value)
                   ELSE ui
          /\ timers' = timersAfterStop(timers, intervalRefs,
                                       {requests[r].inst})
          /\ intervalRefs' = intervalRefs \ {requests[r].inst}
          /\ Did("settle", r, "ok")
          /\ UNCHANGED <<activeFeature, inst>>
     ELSE Settles(r, "fail", value)

\* A timer fires: the 10 s delay of a video run, or the 5 s interval of a
\* reassurance ticker.
TimerFires(t) ==
  /\ t \in timers
  /\ IF t.kind = "delay"
     THEN /\ Progress(t.owner, CheckingMessage, Staged(t.owner, "call"),
                      timers \ {t})
          /\ Did("progress", t.owner, "none")
     ELSE LET k == (t.index + 1) % ReassuringCount IN
          /\ timers' = (timers \ {t}) \cup {Ticker(t.owner, k)}
          /\ ui' = IF t.owner = inst
                   THEN [ui EXCEPT !.loadingMessage = reassuringMessages[k + 1]]
                   ELSE ui
          /\ Did("tick", 0, "none")
          /\ UNCHANGED <<requests, intervalRefs>>
  /\ UNCHANGED <<activeFeature, inst>>

\* extractFrames of request r captured a frame: setProgress.
FrameCaptured(r) ==
  /\ r \in 1..Len(requests)
  /\ requests[r].stage = "sampling"
  /\ Mounted(r)
  /\ ui' = [ui EXCEPT !.progress = "Extracting frames..."]
  /\ Did("progress", r, "none")
  /\ UNCHANGED <<activeFeature, inst, requests, timers, intervalRefs>>

\* extractFrames of request r settles: with frames, with no frame, or
\* rejected.
ExtractFramesSettles(r, outcome) ==
  /\ r \in 1..Len(requests)
  /\ requests[r].stage = "sampling"
  /\ IF outcome = "frames"
     THEN /\ requests' = Staged(r, "gateway")
          /\ ui' = IF Mounted(r)
                   THEN [ui EXCEPT !.progress = "Analyzing frames with Gemini..."]
                   ELSE ui
          /\ Did("progress", r, "none")
          /\ UNCHANGED <<activeFeature, inst, timers, intervalRefs>>
     ELSE IF outcome = "empty"
     THEN Settles(r, "fail", "Could not extract any frames from the video.")
     ELSE Settles(r, "fail", "Error loading video file.")

\* The gateway operation of request r settles.
GatewaySettles(r, outcome, value) ==
  /\ r \in 1..Len(requests)
  /\ requests[r].stage = "gateway"
  /\ Settles(r, outcome, value)

Outcomes == {<<"ok", "content">>, <<"fail", UpstreamMessage>>}
RunOutcomes ==
  Outcomes \cup {<<"fail", NotFoundResponse>>,
                 <<"fail", operationFailed(NotFoundResponse)>>}

AppNext ==
  \/ \E f \in Features : SelectFeature(f)
  \/ \E b \in BOOLEAN : CheckKeyReturns(b)
  \/ \E b \in BOOLEAN : HandleSelectKey(b)
  \/ \E b \in BOOLEAN : SetPrompt(b)
  \/ \E b \in BOOLEAN : SetFile(b)
  \/ \E b \in BOOLEAN : SetContextImage(b)
  \/ \E m \in {"videoOnly", "videoWithImage", "text", "images"} : ChangeMode(m)
  \/ \E k \in BOOLEAN : HandleSubmit(k)
  \/ \E r \in 1..MaxRequests, ok \in BOOLEAN, k \in BOOLEAN : FilesRead(r, ok, k)
  \/ \E r \in 1..MaxRequests, m \in RunMessages \cup {"none"},
        next \in {"call", "delay"} : RunCallReturns(r, m, next)
  \/ \E r \in 1..MaxRequests, o \in RunOutcomes : RunEnds(r, o[1], o[2])
  \/ \E t \in timers : TimerFires(t)
  \/ \E r \in 1..MaxRequests : FrameCaptured(r)
  \/ \E r \in 1..MaxRequests, o \in {"frames", "empty", "rejected"} :
        ExtractFramesSettles(r, o)
  \/ \E r \in 1..MaxRequests, o \in Outcomes : GatewaySettles(r, o[1], o[2])

(* ------------------------------------------------------------------ *)
(* The application: claims                                             *)
(* ------------------------------------------------------------------ *)

RequestIds == 1..Len(requests)

\* A required input of feature f is missing in component state u.
MissingInput(f, u) ==
  \/ f = "generate" /\ ~u.prompt
  \/ f = "edit" /\ (~u.prompt \/ ~u.file)
  \/ f = "analyze" /\ ~u.file
  \/ f = "video" /\ (~u.file \/ (u.mode = "videoWithImage" /\ ~u.context))
  \/ f = "generate-video" /\ (~u.prompt \/ (u.mode = "images" /\ ~u.file))

\* C16: in every state of every feature the validation of handleSubmit
\* reports an error exactly when a required input is missing, and a
\* submission with a missing input changes nothing but the error message,
\* which becomes a validation message: no request, sampler pass or timer
\* is started, isLoading stays false and the displayed result is kept.
C16_ValidationFailure ==
  /\ [](MissingInput(activeFeature, ui)
          <=> validationError(activeFeature, ui) # "none")
  /\ [][(lastAction'.kind = "submit" /\ MissingInput(activeFeature, ui))
          => /\ ui'.error \in ValidationMessages
             /\ ui' = [ui EXCEPT !.error = ui'.error]
             /\ ~ui'.isLoading
             /\ ui'.result = ui.result
             /\ UNCHANGED <<requests, timers, intervalRefs>>]_vars

\* A submission with an empty prompt was rejected by the validation while
\* an earlier result was displayed, and the result is still displayed.
C16_Witness ==
  /\ lastAction.kind = "submit"
  /\ lastAction.outcome = "invalid"
  /\ ui.error = "Please enter a prompt."
  /\ ui.result # Null
  /\ ~ui.isLoading

C18_OneInFlight ==
  \A f \in Features :
    Cardinality({r \in RequestIds :
                   InFlight(r) /\ requests[r].feature = f}) <= 1

\* C11: while a video generation request of the mounted component is
\* running and has emitted a progress message, the displayed loading
\* message is the most recent progress message, no ticker of the component
\* is set, and a firing ticker does not change the displayed message.
Progressing(r) ==
  /\ InFlight(r)
  /\ Mounted(r)
  /\ requests[r].feature = "generate-video"
  /\ requests[r].lastMsg # "none"

C11_TickerCancelled ==
  /\ [](\A r \in RequestIds :
          Progressing(r) => /\ ui.loadingMessage = requests[r].lastMsg
                            /\ TickersOf(inst) = {})
  /\ [][(lastAction'.kind = "tick" /\ \E r \in RequestIds : Progressing(r))
          => ui'.loadingMessage = ui.loadingMessage]_vars

\* A running request of the mounted component has passed its first
\* progress message and a delay: the status check message is displayed.
C11_Witness ==
  \E r \in RequestIds :
    /\ Progressing(r)
    /\ requests[r].lastMsg = CheckingMessage
    /\ ui.loadingMessage = CheckingMessage
    /\ ui.isLoading

\* The VideoGenerate instance i is mounted and a request it started has
\* not settled.
Generating(i) ==
  /\ i = inst
  /\ \E r \in RequestIds : /\ requests[r].feature = "generate-video"
                            /\ requests[r].inst = i
                            /\ InFlight(r)

\* C32: a component instance has at most one ticker timer at any time;
\* an instance that is unmounted, or none of whose video-generation
\* requests is running, has no ticker timer; and a ticker that fires
\* while the mounted instance has no running request leaves the displayed
\* message as it is.
C32_TickerWithinRequest ==
  /\ [](\A i \in 1..MaxMounts : Cardinality(TickersOf(i)) <= 1)
  /\ [](\A i \in 1..MaxMounts : ~Generating(i) => TickersOf(i) = {})
  /\ [][(lastAction'.kind = "tick" /\ ~Generating(inst))
          => ui'.loadingMessage = ui.loadingMessage]_vars

\* A video-generation request of the mounted component has just settled
\* after a status check, and the component has no ticker timer.
C32_Witness ==
  /\ lastAction.kind = "settle"
  /\ lastAction.req # 0
  /\ activeFeature = "generate-video"
  /\ requests[lastAction.req].inst = inst
  /\ requests[lastAction.req].feature = "generate-video"
  /\ requests[lastAction.req].lastMsg \in {CheckingMessage, CompleteMessage}
  /\ ~ui.isLoading
  /\ TickersOf(inst) = {}

\* The failure messages of a video run that contain the phrase
\* "Requested entity was not found".
KeyInvalidating == {NotFoundResponse, operationFailed(NotFoundResponse)}

C21_NoSharedState ==
  /\ [](\A q, r \in RequestIds :
          (q # r /\ InFlight(q) /\ InFlight(r))
             => requests[q].inst # requests[r].inst)
  /\ [][(lastAction'.kind \in {"progress", "settle"} /\ lastAction'.req # 0)
          => LET r == lastAction'.req IN
             /\ \A q \in RequestIds : q # r => requests'[q] = requests[q]
             /\ \A t \in timers :
                   (t # Delay(r) /\ ~(t.kind = "ticker"
                                      /\ t.owner = requests[r].inst))
                      => t \in timers'
             /\ requests[r].inst # inst => ui' = ui]_vars

\* Two video generation runs of different component instances are running
\* at once, each waiting in its own delay.
C21_Witness ==
  \E q, r \in RequestIds :
    /\ q # r
    /\ requests[q].feature = "generate-video"
    /\ requests[r].feature = "generate-video"
    /\ requests[q].stage = "delay" /\ requests[r].stage = "delay"
    /\ Delay(q) \in timers /\ Delay(r) \in timers
    /\ requests[q].lastMsg # requests[r].lastMsg

\* C26: a mode change, an input change, a tab switch or the unmount of the
\* owning component leaves every running request and every delay timer as
\* they are; a run in its delay always holds its timer and its next status
\* query can be issued, and a sampling pass can go on, whether or not the
\* component is still mounted.
C26_NotCancellable ==
  /\ [][lastAction'.kind \in {"ui", "mount"}
          => /\ requests' = requests
             /\ \A t \in timers : t.kind = "delay" => t \in timers']_vars
  /\ [](\A r \in RequestIds :
          /\ requests[r].stage = "delay" <=> Delay(r) \in timers
          /\ requests[r].stage = "delay" => ENABLED TimerFires(Delay(r))
          /\ requests[r].stage = "sampling"
               => ENABLED ExtractFramesSettles(r, "frames"))

\* The component of a video generation run waiting in its delay was
\* unmounted by a tab switch; the run still holds its timer.
C26_Witness ==
  /\ lastAction.kind = "mount"
  /\ \E r \in RequestIds :
       /\ requests[r].feature = "generate-video"
       /\ requests[r].stage = "delay"
       /\ ~Mounted(r)
       /\ Delay(r) \in timers

\* C28: every object URL created for a downloaded video and not revoked
\* is the one displayed by the mounted VideoGenerate.
C28_VideoUrlReleased ==
  \A r \in RequestIds :
    (requests[r].url # 0 /\ requests[r].url \notin revokedVideoUrls)
       => (activeFeature = "generate-video" /\ ui.videoUrl = requests[r].url)

(* ------------------------------------------------------------------ *)
(* Preview object URLs: FileUpload and VideoGenerate                   *)
(* ------------------------------------------------------------------ *)

FileNames == {"a", "b"}

\* The file lists one file dialog can return (never empty here: the
\* handler returns at once on an empty selection).
Selections ==
  UNION {[1..n -> FileNames] : n \in 1..MaxSelect}

\* The components that render a FileUpload: the single-file upload with
\* previews of ImageEdit, ImageAnalyze and VideoAnalyze, and VideoGenerate
\* with multiple, maxFiles={3}, showPreviews={false}.
UploadHosts == {"edit", "generate-video"}

multiple == uploadHost = "generate-video"
maxFiles == IF multiple THEN 3 ELSE 1
showPreviews == ~multiple

Range(q) == {q[i] : i \in 1..Len(q)}

\* array.filter((_, index) => index !== indexToRemove), 1-based
RemoveAt(q, i) == [j \in 1..(Len(q) - 1) |-> IF j < i THEN q[j] ELSE q[j + 1]]

\* Mutation of Slice: the list is not cut.
SliceAll(q, n) == q

\* array.slice(0, n)
Slice(q, n) == SubSeq(q, 1, IF Len(q) < n THEN Len(q) ELSE n)

\* newFiles.map(file => URL.createObjectURL(file)), the first new URL
\* being number first
NewUrls(n, first) == [j \in 1..n |-> first + j - 1]

\* Mutation of effectCleanup: the effect has no clean-up function.
effectCleanupNone(old) == {}

\* The clean-up of the effect on a preview list, run when the list
\* changes and on unmount: old.forEach(url => URL.revokeObjectURL(url)).
effectCleanup(old) == Range(old)

canUploadMore == IF multiple THEN Len(files) < maxFiles ELSE Len(files) = 0

UploadInit ==
  /\ uploadHost = "edit"
  /\ fileUploadMounted = TRUE
  /\ files = <<>>
  /\ previews = <<>>
  /\ vgMode = "text"
  /\ imageFiles = <<>>
  /\ imagePreviews = <<>>
  /\ urlCount = 0
  /\ revokedUrls = {}
  /\ revokedTwice = {}
  /\ imagePreviewUrls = {}
  /\ previewFiles = <<>>
  /\ reported = <<>>
  /\ dropped = 0

\* URL.revokeObjectURL is called on every URL of each of the sets bs[1],
\* bs[2], ... in turn.
Revoke(bs) ==
  LET all == UNION {bs[i] : i \in 1..Len(bs)} IN
  /\ revokedUrls' = revokedUrls \cup all
  /\ revokedTwice' = revokedTwice \cup
       {u \in all : \/ u \in revokedUrls
                    \/ \E i, j \in 1..Len(bs) :
                          i < j /\ u \in bs[i] /\ u \in bs[j]}

\* FileUpload.updateFiles(newFiles), with the onFileChange callback of
\* its host and the effect clean-ups of the re-render.
updateFiles(newFiles) ==
  LET n == Len(newFiles)
      newPreviews == NewUrls(n, urlCount + 1)
  IN
  /\ files' = newFiles
  /\ previews' = newPreviews
  /\ reported' = newFiles
  /\ previewFiles' = newFiles
  /\ IF uploadHost = "generate-video"
     THEN \* VideoGenerate.handleImageFileChange
          /\ urlCount + 2 * n <= MaxUrls
          /\ imageFiles' = newFiles
          /\ imagePreviews' = NewUrls(n, urlCount + n + 1)
          /\ imagePreviewUrls' = imagePreviewUrls \cup Range(imagePreviews')
          /\ urlCount' = urlCount + 2 * n
          /\ Revoke(<<Range(previews), effectCleanup(previews),
                      effectCleanup(imagePreviews)>>)
     ELSE /\ urlCount + n <= MaxUrls
          /\ urlCount' = urlCount + n
          /\ Revoke(<<Range(previews), effectCleanup(previews)>>)
          /\ UNCHANGED <<imageFiles, imagePreviews, imagePreviewUrls>>
  /\ UNCHANGED <<uploadHost, fileUploadMounted, vgMode>>

\* FileUpload.handleFileChange: the file dialog returns selectedFiles.
handleFileChange(selectedFiles) ==
  /\ fileUploadMounted
  /\ canUploadMore
  /\ updateFiles(IF multiple THEN Slice(files \o selectedFiles, maxFiles)
                 ELSE Slice(selectedFiles, 1))
  /\ dropped' = (IF multiple THEN Len(files) + Len(selectedFiles)
                 ELSE Len(selectedFiles)) - Len(files')

\* FileUpload.handleRemoveFile: the remove button of a displayed preview.
handleRemoveFile(indexToRemove) ==
  /\ fileUploadMounted
  /\ showPreviews
  /\ indexToRemove \in 1..Len(previews)
  /\ updateFiles(RemoveAt(files, indexToRemove))
  /\ dropped' = 0

\* VideoGenerate.handleRemoveImage, and the effect clean-up of the
\* re-render.
handleRemoveImage(indexToRemove) ==
  /\ uploadHost = "generate-video"
  /\ vgMode = "images"
  /\ indexToRemove \in 1..Len(imagePreviews)
  /\ imageFiles' = RemoveAt(imageFiles, indexToRemove)
  /\ imagePreviews' = RemoveAt(imagePreviews, indexToRemove)
  /\ Revoke(<<{imagePreviews[indexToRemove]}, effectCleanup(imagePreviews)>>)
  /\ UNCHANGED <<uploadHost, fileUploadMounted, files, previews, vgMode,
                 urlCount, imagePreviewUrls, previewFiles, reported, dropped>>

\* The mode buttons of VideoGenerate: setMode(m), setImageFiles([]),
\* setImagePreviews([]); the FileUpload is rendered in images mode only.
SetMode(m) ==
  /\ uploadHost = "generate-video"
  /\ vgMode' = m
  /\ imageFiles' = <<>>
  /\ imagePreviews' = <<>>
  /\ fileUploadMounted' = (m = "images")
  /\ IF m = "images" /\ fileUploadMounted
     THEN /\ Revoke(<<effectCleanup(imagePreviews)>>)
          /\ UNCHANGED <<files, previews, previewFiles, reported, dropped>>
     ELSE /\ Revoke(<<effectCleanup(imagePreviews), effectCleanup(previews)>>)
          /\ files' = <<>>
          /\ previews' = <<>>
          /\ previewFiles' = <<>>
          /\ reported' = <<>>
          /\ dropped' = 0
  /\ UNCHANGED <<uploadHost, urlCount, imagePreviewUrls>>

\* The host component unmounts and host h mounts (a tab switch).
MountHost(h) ==
  /\ h # uploadHost
  /\ uploadHost' = h
  /\ fileUploadMounted' = (h = "edit")
  /\ files' = <<>>
  /\ previews' = <<>>
  /\ vgMode' = "text"
  /\ imageFiles' = <<>>
  /\ imagePreviews' = <<>>
  /\ Revoke(<<effectCleanup(previews), effectCleanup(imagePreviews)>>)
  /\ previewFiles' = <<>>
  /\ reported' = <<>>
  /\ dropped' = 0
  /\ UNCHANGED <<urlCount, imagePreviewUrls>>

UploadNext ==
  \/ \E sel \in Selections : handleFileChange(sel)
  \/ \E i \in 1..3 : handleRemoveFile(i)
  \/ \E i \in 1..3 : handleRemoveImage(i)
  \/ \E m \in {"text", "images"} : SetMode(m)
  \/ \E h \in UploadHosts : MountHost(h)

\* The preview URLs held in the state of a mounted component.
HeldUrls == Range(previews) \cup Range(imagePreviews)

\* C19: every preview URL that was created and is no longer held by a
\* mounted FileUpload or by VideoGenerate's preview list has been revoked.
C19_PreviewsRevoked ==
  \A u \in 1..urlCount : u \notin HeldUrls => u \in revokedUrls

\* After a removal in VideoGenerate a preview is still listed and the
\* URLs that left the list are revoked.
C19_Witness ==
  /\ uploadHost = "generate-video"
  /\ Len(imagePreviews) = 1
  /\ Len(previews) = 2
  /\ \E u \in 1..urlCount : u \notin HeldUrls /\ u \in revokedUrls

\* C29: no URL listed in imagePreviews has been revoked, and no URL made
\* for the preview list of VideoGenerate has been revoked more than once.
C29_DisplayedNotRevoked ==
  /\ \A u \in Range(imagePreviews) : u \notin revokedUrls
  /\ revokedTwice \cap imagePreviewUrls = {}

\* C31: a FileUpload holds at most maxFiles files in multiple mode and at
\* most one in single mode, preview j is the URL made for file j, and the
\* list last passed to onFileChange is the held file list.
C31_FileListConsistent ==
  /\ multiple => Len(files) <= maxFiles
  /\ ~multiple => Len(files) <= 1
  /\ Len(previews) = Len(files)
  /\ previewFiles = files
  /\ reported = files

\* A multiple FileUpload is full after a selection that was cut.
C31_Witness ==
  /\ multiple
  /\ fileUploadMounted
  /\ Len(files) = maxFiles
  /\ dropped > 0
  /\ reported = files

(* ------------------------------------------------------------------ *)
(* generateVideoFromImages: the reference-image payload                *)
(* ------------------------------------------------------------------ *)

\* Reference images of one submission (FileUpload maxFiles={3}).
MaxImages == 3

ImageLists == UNION {[1..n -> FileNames] : n \in 1..MaxImages}

\* fileToBase64(file): the data URL of the file without its header.
fileToBase64(file) == <<"base64", file>>

\* The entry of the payload built from one file.
PayloadEntry(file) == [imageBytes |-> fileToBase64(file), mimeType |-> file]

\* Mutation of payloadOf: the entries are collected as the reads complete.
payloadInCompletionOrder(fs, order) ==
  [j \in 1..Len(fs) |-> PayloadEntry(fs[order[j]])]

\* await Promise.all(imageFiles.map(async (file) => ...)): entry j is made
\* from file j, whatever the order the reads completed in.
payloadOf(fs, order) == [j \in 1..Len(fs) |-> PayloadEntry(fs[j])]

PayloadInit ==
  /\ payloadPc = "idle"
  /\ readFiles = <<>>
  /\ readState = <<>>
  /\ readOrder = <<>>
  /\ referenceImagesPayload = <<>>
  /\ jobSubmitted = FALSE

\* generateVideoFromImages(prompt, imageFiles, ...) up to its await: one
\* read is started per file.
GenerateVideoFromImages(fs) ==
  /\ payloadPc = "idle"
  /\ payloadPc' = "reading"
  /\ readFiles' = fs
  /\ readState' = [j \in 1..Len(fs) |-> "pending"]
  /\ UNCHANGED <<readOrder, referenceImagesPayload, jobSubmitted>>

\* The read of file j completes (reader.onload) or fails (reader.onerror).
\* Promise.all rejects on the first failed read and is fulfilled by the
\* last successful one; the function then resumes: handleVideoOperation
\* checks the key and calls getOperation.
FileReadSettles(j, ok, apiKey) ==
  /\ payloadPc \in {"reading", "failed"}
  /\ j \in 1..Len(readFiles)
  /\ readState[j] = "pending"
  /\ readState' = [readState EXCEPT ![j] = IF ok THEN "done" ELSE "failed"]
  /\ readOrder' = Append(readOrder, j)
  /\ IF payloadPc = "failed"
     THEN UNCHANGED <<payloadPc, referenceImagesPayload, jobSubmitted>>
     ELSE IF ~ok
     THEN /\ payloadPc' = "failed"
          /\ UNCHANGED <<referenceImagesPayload, jobSubmitted>>
     ELSE IF \A i \in 1..Len(readFiles) : readState'[i] = "done"
     THEN /\ referenceImagesPayload' = payloadOf(readFiles, readOrder')
          /\ IF keyMissing(apiKey)
             THEN payloadPc' = "failed" /\ UNCHANGED jobSubmitted
             ELSE payloadPc' = "submitted" /\ jobSubmitted' = TRUE
     ELSE UNCHANGED <<payloadPc, referenceImagesPayload, jobSubmitted>>
  /\ UNCHANGED readFiles

PayloadNext ==
  \/ \E fs \in ImageLists : GenerateVideoFromImages(fs)
  \/ \E j \in 1..MaxImages, ok \in BOOLEAN, k \in BOOLEAN :
        FileReadSettles(j, ok, k)

\* C30: a job is submitted only after every read has succeeded, with a
\* payload of one entry per file in which entry j is the encoding of file
\* j; once a read has failed no job is submitted.
C30_PayloadOrdered ==
  /\ jobSubmitted =>
        /\ \A j \in 1..Len(readFiles) : readState[j] = "done"
        /\ Len(referenceImagesPayload) = Len(readFiles)
        /\ \A j \in 1..Len(readFiles) :
              referenceImagesPayload[j].imageBytes = fileToBase64(readFiles[j])
  /\ (\E j \in 1..Len(readFiles) : readState[j] = "failed") => ~jobSubmitted

\* A job was submitted for three files of which the first is unlike the
\* others and whose reads completed in the order 3, 1, 2.
C30_Witness ==
  /\ jobSubmitted
  /\ readFiles = <<"a", "b", "b">>
  /\ readOrder = <<3, 1, 2>>

(* ------------------------------------------------------------------ *)
(* Specifications                                                      *)
(* ------------------------------------------------------------------ *)

Init ==
  /\ SamplerInit /\ PollerInit /\ GatewayInit /\ AppInit /\ UploadInit
  /\ AnalysisInit /\ PayloadInit

SamplerStep ==
  SamplerNext /\ UNCHANGED <<pollerVars, gatewayVars, appVars, uploadVars,
                             analysisVars, payloadVars>>
PollerStep ==
  PollerNext /\ UNCHANGED <<samplerVars, gatewayVars, appVars, uploadVars,
                            analysisVars, payloadVars>>

\* The gateway module: its evaluation, the request functions and video
\* runs, which exist only once the module has loaded.
GatewayStep ==
  \/ GatewayNext /\ UNCHANGED <<samplerVars, pollerVars, appVars, uploadVars,
                                analysisVars, payloadVars>>
  \/ moduleState = "loaded" /\ PollerStep

AppStep ==
  AppNext /\ UNCHANGED <<samplerVars, pollerVars, gatewayVars, uploadVars,
                         analysisVars, payloadVars>>
UploadStep ==
  UploadNext /\ UNCHANGED <<samplerVars, pollerVars, gatewayVars, appVars,
                            analysisVars, payloadVars>>

\* A sampling pass and the rest of the submission that awaits it.
AnalysisStep ==
  \/ SamplerStep
  \/ AfterExtractFrames
       /\ UNCHANGED <<samplerVars, pollerVars, gatewayVars, appVars,
                      uploadVars, payloadVars>>

PayloadStep ==
  PayloadNext /\ UNCHANGED <<samplerVars, pollerVars, gatewayVars, appVars,
                             uploadVars, analysisVars>>

\* One sampling pass; the poller is not running.
SamplerSpec == Init /\ [][SamplerStep]_vars

\* One poller run; the sampler is not running.
PollerSpec == Init /\ [][PollerStep]_vars

\* One poller run in which every awaited call settles and the delay timer
\* fires.
PollerFairSpec == PollerSpec /\ WF_vars(PollerStep)

\* One sampling pass in which the metadata event is delivered and every
\* requested seek is confirmed.
SamplerFairSpec ==
  /\ SamplerSpec
  /\ WF_vars(OnSeeked /\ SamplerStep)
  /\ WF_vars((\E d \in Durations : OnLoadedMetadata(d)) /\ SamplerStep)

\* The gateway module with one request function call and one video run.
GatewaySpec == Init /\ [][GatewayStep]_vars

\* The application: tab switches, form events and the requests they start,
\* each service call summarised by the ways it can progress and settle.
AppSpec == Init /\ [][AppStep]_vars

\* The upload components: file selection, removal, mode and tab switches.
UploadSpec == Init /\ [][UploadStep]_vars

\* One video analysis submission from its sampling pass on.
AnalysisSpec == Init /\ [][AnalysisStep]_vars

\* One call of generateVideoFromImages up to the submission of the job.
PayloadSpec == Init /\ [][PayloadStep]_vars

Next ==
  SamplerStep \/ GatewayStep \/ AppStep \/ UploadStep \/ AnalysisStep
    \/ PayloadStep
Spec == Init /\ [][Next]_vars
====
